---- MODULE Spec2Model ----
\* Login / form-session state machine of AspieSoft/webext (login.go):
\* the VerifyLogin middleware, the process-wide formSession map and the
\* caller-supplied hooks, with every request running concurrently with the
\* others and interleaving at each access to the shared map.
EXTENDS Integers, Sequences, FiniteSets, TLC

\* ------------------------------------------------------------------ bounds
MaxTokens == 1        \* login forms (with their form session) per behaviour
MaxTime == 2          \* the clock runs 0..MaxTime (unit: one hour)
MaxErrLen == 4        \* characters of an error message of CreateSession
NumCallbacks == 2     \* registered OnLogin callbacks
MaxHostLen == 3       \* characters of a Host header
MaxListLen == 2       \* entries of an origin list or a proxy list

\* ------------------------------------------------------- program constants
Lifetime == 2         \* exp := time.Now().Add(2 * time.Hour)
MsPerMinute == 60000  \* crtTime.UnixMilli() / 60000

\* --------------------------------------------------------------- universes
Slots == {"r1", "r2"}                     \* requests in flight at once
Slots2Auth == {"r1"}                      \* the same, in Spec2Auth
Devices == {"d1", "d2"}                   \* values of Hooks.GetPCID(c)
UUIDs == {"u1", "u2"}                     \* identities known to the hooks
TwoAuthUsers == {"u2"}                    \* identities with 2auth enabled
LoginTokens == {"L1"}                     \* tokens CreateSession may return
\* crypt.RandBytes(64): successive values, none ever repeated
FormTokens == <<"T1", "T2", "T3", "T4">>
FormCookies == <<"S1", "S2", "S3", "S4">>

VARIABLES
    formSession,   \* the syncmap: form token -> formSessionData
    now,           \* time.Now()
    nextTok,       \* index of the next unused random value
    req,           \* per slot: the login request in flight, or Idle
    last,          \* the probe: Idle, or the request whose handler returned in
                   \* the latest step, with its response
    twoAuth,       \* TRUE iff Has2Auth, Render2Auth and Verify2Auth are set
    issued,        \* history: every record ever stored, by token
    hist,          \* history: what has happened to each token so far
    hasFailedSSL,  \* webext.go:33: set by the goroutine of ListenAutoTLS
    tlsListener    \* the goroutine of ListenAutoTLS: "none", "listening",
                   \* "failed" (ListenTLS returned an error), "closed"

vars == <<formSession, now, nextTok, req, last, twoAuth, issued, hist, hasFailedSSL, tlsListener>>

\* ---------------------------------------------------------- formSessionData
NoData == [pcid |-> "", cookie |-> "", exp |-> 0]

FormSessionData(pcid, cookie, exp) == [pcid |-> pcid, cookie |-> cookie, exp |-> exp]

\* ------------------------------------------------------- syncmap operations
SyncMapGet(m, key) ==
    IF key \in DOMAIN m THEN [val |-> m[key], ok |-> TRUE]
    ELSE [val |-> NoData, ok |-> FALSE]

SyncMapDelKeepsKey(m, key) == m

SyncMapDelAll(m, key) == [k \in {} |-> NoData]

SyncMapDel(m, key) == [k \in (DOMAIN m) \ {key} |-> m[k]]

SyncMapSetAlone(m, key, val) == [k \in {key} |-> val]

SyncMapSet(m, key, val) == [k \in (DOMAIN m) \cup {key} |-> IF k = key THEN val ELSE m[k]]

\* ------------------------------------------------------------------- hooks
\* Hooks.LoginForm.VerifyUserPass: the hooks' user database knows the
\* identities of UUIDs; a request names one of them with its right password,
\* or carries credentials the database rejects ("bad").
VerifyUserPass(cred) ==
    IF cred \in UUIDs THEN [uuid |-> cred, ok |-> TRUE] ELSE [uuid |-> "", ok |-> FALSE]

\* Hooks.LoginForm.Has2Auth
Has2Auth(uuid) == uuid \in TwoAuthUsers

\* Hooks.LoginForm.Verify2Auth: reads the submitted code from the request
Verify2Auth(cred) ==
    IF cred \in UUIDs THEN [uuid |-> cred, ok |-> TRUE] ELSE [uuid |-> "", ok |-> FALSE]

\* Results of Hooks.LoginForm.CreateSession: the token and loginErr.Error(),
\* a sequence of characters (<<>>: loginErr is nil)
SessionResult(token, text) == [token |-> token, text |-> text]

\* the error messages of the hooks in Spec and Spec2Auth: "o" and "503: o"
CreateErrors == { <<"o">>, <<"5", "0", "3", ":", " ", "o">> }

CreateResults ==
    { SessionResult(t, <<>>) : t \in LoginTokens }
    \cup { SessionResult("", e) : e \in CreateErrors }

NoSession == SessionResult("", <<>>)

\* every error message of at most MaxErrLen characters over ErrChars
ErrChars == {"5", "0", ":", " ", "o"}

ErrorMessages == UNION { [1..n -> ErrChars] : n \in 1..MaxErrLen }

AllErrorResults == { SessionResult("", e) : e \in ErrorMessages }

\* Results of Hooks.LoginForm.VerifySession
SessionResults == { [uuid |-> u, ok |-> TRUE] : u \in UUIDs } \cup { [uuid |-> "", ok |-> FALSE] }

\* ---------------------------------------------------------------- requests
\* A request: the fields the handler has read from fiber.Ctx so far (a field
\* is "" until the handler reads it, and a field it never reads plays no part
\* in the outcome), the handler's position and locals, and the response.
Idle ==
    [ pc |-> "idle",
      handler |-> "VerifyLogin",   \* the middleware that handles the request
      action |-> "", session |-> "", pcid |-> "", formCookie |-> "",
      loginCookie |-> "", cred |-> "",
      prior |-> {},            \* history of `session` at the lookup
      found |-> FALSE,         \* `ok` of formSession.Get
      got |-> NoData,          \* local `session` of the handler
      unexpired |-> FALSE,     \* time.Now() was before got.exp at the lookup
      calls |-> <<>>,          \* hooks and map operations, in call order
      status |-> 0, msg |-> "",
      formOut |-> "", loginOut |-> "",   \* response cookies: "", "clear" or a value
      render |-> "", renderTok |-> "",
      removed |-> "",          \* argument given to RemoveSession
      answer |-> [uuid |-> "", ok |-> FALSE],   \* what VerifySession returned
      rejectedBy |-> 0,        \* the OnLogin callback that returned an error
      cbArg |-> "",            \* the uuid given to the OnLogin callbacks
      created |-> NoSession,   \* what CreateSession returned
      uuid |-> "",             \* c.Locals("uuid")
      next |-> FALSE ]         \* c.Next() was returned

IssuedTokens == { FormTokens[i] : i \in 1..(nextTok - 1) }
IssuedCookies == { FormCookies[i] : i \in 1..(nextTok - 1) }

\* values of the request's form_session cookie: none, a secret the handler
\* issued, or a value it never issued
FormCookieInputs == IssuedCookies \cup {"", "S0"}

PriorOf(token) == IF token \in DOMAIN hist THEN hist[token] ELSE {}

Mark(token, tag) ==
    IF token \in DOMAIN hist THEN [hist EXCEPT ![token] = @ \cup {tag}] ELSE hist

\* c.SendStatus(status); return c.SendString(msg)
DenyRevealing(q, status, msg) ==
    [q EXCEPT !.pc = "done", !.status = IF status = 408 /\ ~q.found THEN 404 ELSE status,
              !.msg = msg]

DenyClearingCookie(q, status, msg) ==
    [q EXCEPT !.pc = "done", !.status = status, !.msg = msg, !.formOut = "clear"]

DenyAttachingUuid(q, status, msg) ==
    [q EXCEPT !.pc = "done", !.status = status, !.msg = msg, !.uuid = q.cbArg]

Deny(q, status, msg) == [q EXCEPT !.pc = "done", !.status = status, !.msg = msg]

\* A handler returns. The probe either takes the completed request, and the
\* behaviour ends there with the response exposed, or stays Idle, and the
\* behaviour goes on: every response of every request is exposed in some
\* behaviour, and the requests that follow it are those of the other one.
Probe(q) == last' \in {q, Idle}

RunningOutsideHooks == last = Idle /\ \A r \in Slots : req[r].pc # "verify"

Running == last = Idle

\* the handler of slot r returns
Return(r, q) == /\ Probe(q)
                /\ req' = [req EXCEPT ![r] = Idle]

\* the handler of slot r goes on
Continue(r, q) == /\ req' = [req EXCEPT ![r] = q]
                  /\ last' = Idle

\* --------------------------------------------------------------- VerifyLogin
LoginActions == IF twoAuth THEN {"login", "login_2auth"} ELSE {"login"}

\* login.go:172-184: action == "login", OnAttempt; the submitted form token
\* is fixed when the request arrives
OnAttemptStep(r) ==
    /\ Running
    /\ req[r].pc = "idle"
    /\ \E action \in LoginActions, session \in IssuedTokens \cup {""}, allow \in BOOLEAN :
          LET q == [Idle EXCEPT !.action = action, !.session = session,
                                !.calls = <<"OnAttempt">>]
          IN IF allow THEN Continue(r, [q EXCEPT !.pc = "get"])
             ELSE Return(r, Deny(q, 401, "Too Many Login Attempts!"))
    /\ UNCHANGED <<formSession, now, nextTok, twoAuth, hasFailedSSL, tlsListener, issued, hist>>

\* login.go:187: the condition guarding the redemption
SessionUsableAnyDevice(session, ok, pcid, t) == ok /\ t < session.exp

SessionUsableForever(session, ok, pcid, t) == ok /\ session.pcid = pcid

SessionUsableIfFound(session, ok, pcid, t) == ok

SessionUsable(session, ok, pcid, t) == ok /\ session.pcid = pcid /\ t < session.exp

\* login.go:186-187 and 236-238: formSession.Get(formToken) and its checks
\* (GetPCID is called only when the token was found)
GetStep(r) ==
    LET q == req[r]
        g == SyncMapGet(formSession, q.session)
    IN /\ Running
       /\ q.pc = "get"
       /\ \E pcid \in (IF g.ok THEN Devices ELSE {""}) :
             LET q1 == [q EXCEPT !.pcid = pcid, !.found = g.ok, !.got = g.val,
                                 !.unexpired = (g.ok /\ now < g.val.exp),
                                 !.prior = PriorOf(q.session),
                                 !.calls = Append(@, "Get")]
             IN IF SessionUsable(g.val, g.ok, pcid, now)
                THEN /\ Continue(r, [q1 EXCEPT !.pc = "del"])
                     /\ hist' = hist
                ELSE /\ Return(r, Deny([q1 EXCEPT !.formOut = "clear"],
                                       408, "Session Invalid Or Expired!"))
                     /\ hist' = IF g.ok /\ now < g.val.exp
                                THEN Mark(q.session, "pcid") ELSE hist
       /\ UNCHANGED <<formSession, now, nextTok, twoAuth, hasFailedSSL, tlsListener, issued>>

\* login.go:188-190 and 236-238: formSession.Del(formToken), then the
\* form_session cookie is compared
DelStep(r) ==
    LET q == req[r]
    IN /\ Running
       /\ q.pc = "del"
       /\ formSession' = SyncMapDel(formSession, q.session)
       /\ \E formCookie \in FormCookieInputs :
             LET q1 == [q EXCEPT !.formCookie = formCookie, !.calls = Append(@, "Del"),
                                 !.formOut = "clear"]
             IN IF formCookie = q.got.cookie
                THEN /\ Continue(r, [q1 EXCEPT !.pc = "verify"])
                     /\ hist' = Mark(q.session, "redeemed")
                ELSE /\ Return(r, Deny(q1, 408, "Session Invalid Or Expired!"))
                     /\ hist' = hist
       /\ UNCHANGED <<now, nextTok, twoAuth, hasFailedSSL, tlsListener, issued>>

\* The second factor applies: the three 2auth hooks are set and Has2Auth
\* affirms the identity
Needs2AuthNever(uuid) == FALSE

Needs2Auth(uuid) == twoAuth /\ Has2Auth(uuid)

\* login.go:192, 229-232: VerifyUserPass rejects the credentials
CredentialsRejectedSilently(r) ==
    LET q == req[r]
    IN /\ Running
       /\ q.pc = "verify" /\ q.action = "login"
       /\ \E cred \in UUIDs \cup {"bad"} :
             /\ ~VerifyUserPass(cred).ok
             /\ Return(r, Deny([q EXCEPT !.cred = cred,
                                         !.calls = @ \o <<"VerifyUserPass">>],
                               401, "Incorrect Username Or Password!"))
       /\ hist' = Mark(q.session, "rejected")
       /\ UNCHANGED <<formSession, now, nextTok, twoAuth, hasFailedSSL, tlsListener, issued>>

CredentialsRejected(r) ==
    LET q == req[r]
    IN /\ Running
       /\ q.pc = "verify" /\ q.action = "login"
       /\ \E cred \in UUIDs \cup {"bad"} :
             /\ ~VerifyUserPass(cred).ok
             /\ Return(r, Deny([q EXCEPT !.cred = cred,
                                         !.calls = @ \o <<"VerifyUserPass", "OnFailedAttempt">>],
                               401, "Incorrect Username Or Password!"))
       /\ hist' = Mark(q.session, "rejected")
       /\ UNCHANGED <<formSession, now, nextTok, twoAuth, hasFailedSSL, tlsListener, issued>>

\* the calls made by `for _, cb := range Hooks.LoginForm.OnLogin` when the
\* first k callbacks are invoked
OnLoginCallsAll(k) == [i \in 1..NumCallbacks |-> "OnLogin"]

OnLoginCallsThenFailed(k) == [i \in 1..k |-> "OnLogin"] \o <<"OnFailedAttempt">>

OnLoginCalls(k) == [i \in 1..k |-> "OnLogin"]

\* login.go:193-198: callback k is the first to return an error
OnLoginDenied(r) ==
    LET q == req[r]
    IN /\ Running
       /\ q.pc = "verify" /\ q.action = "login"
       /\ \E cred \in UUIDs \cup {"bad"}, k \in 1..NumCallbacks :
             /\ VerifyUserPass(cred).ok
             /\ Return(r, Deny([q EXCEPT !.cred = cred, !.rejectedBy = k,
                                         !.cbArg = VerifyUserPass(cred).uuid,
                                         !.calls = @ \o <<"VerifyUserPass">> \o OnLoginCalls(k)],
                               401, "denied by callback " \o ToString(k)))
       /\ UNCHANGED <<formSession, now, nextTok, twoAuth, hasFailedSSL, tlsListener, issued, hist>>

\* --------------------------------------------- the error of CreateSession
DecimalDigits == <<"0", "1", "2", "3", "4", "5", "6", "7", "8", "9">>

IsDigit(c) == \E d \in 1..10 : DecimalDigits[d] = c

DigitValue(c) == (CHOOSE d \in 1..10 : DecimalDigits[d] = c) - 1

\* strconv.Atoi of a non-empty run of digits (a run of at most MaxErrLen
\* digits is within the range of int: err is nil)
RECURSIVE Atoi(_)
Atoi(s) ==
    IF s = <<>> THEN 0
    ELSE Atoi(SubSeq(s, 1, Len(s) - 1)) * 10 + DigitValue(s[Len(s)])

\* [0-9]+ and \s* are greedy: the digits, the spaces at the head of s
RECURSIVE LeadingDigits(_)
LeadingDigits(s) ==
    IF s # <<>> /\ IsDigit(s[1]) THEN 1 + LeadingDigits(Tail(s)) ELSE 0

RECURSIVE LeadingSpaces(_)
LeadingSpaces(s) ==
    IF s # <<>> /\ s[1] = " " THEN 1 + LeadingSpaces(Tail(s)) ELSE 0

\* the match of `^([0-9]+):\s*` in s: the length of group 1 and the length
\* of the whole match (0, 0: s does not match)
PrefixMatch(s) ==
    LET n == LeadingDigits(s)
    IN IF n >= 1 /\ Len(s) > n /\ s[n + 1] = ":"
       THEN [digits |-> n, all |-> n + 1 + LeadingSpaces(SubSeq(s, n + 2, Len(s)))]
       ELSE [digits |-> 0, all |-> 0]

\* s with the match replaced by the callback's result, []byte{}
PrefixRemoved(s) == SubSeq(s, PrefixMatch(s).all + 1, Len(s))

\* login.go:204-209: regex.Comp(...).RepFunc(msg, callback, true). With its
\* third argument given, RepFunc calls the callback for the match and does not
\* process the return output: its result is empty.
RepFunc(s, blank) == IF blank THEN <<>> ELSE PrefixRemoved(s)

\* login.go:203-209: the status the callback takes from group 1
ErrorStatus(res) ==
    LET m == PrefixMatch(res.text)
    IN IF m.all > 0 THEN Atoi(SubSeq(res.text, 1, m.digits)) ELSE 401

\* login.go:204, 211: the body sent with it
ErrorBody(res) == RepFunc(res.text, TRUE)

\* []byte to string
RECURSIVE Join(_)
Join(s) == IF s = <<>> THEN "" ELSE s[1] \o Join(Tail(s))

\* login.go:214-226: the login_session cookie, c.Locals("uuid"), c.Next()
LoggedInNoCookie(q, uuid, res) == [q EXCEPT !.pc = "done", !.uuid = uuid, !.next = TRUE]

LoggedInAndDenied(q, uuid, res) ==
    [q EXCEPT !.pc = "done", !.loginOut = res.token, !.uuid = uuid, !.next = TRUE,
              !.status = 401]

LoggedIn(q, uuid, res) ==
    [q EXCEPT !.pc = "done", !.loginOut = res.token, !.uuid = uuid, !.next = TRUE]

\* login.go:200-226: CreateSession and what follows it
SessionCreated(q, uuid, res) ==
    LET q1 == [q EXCEPT !.calls = Append(@, "CreateSession"), !.created = res]
    IN IF res.text # <<>> THEN Deny(q1, ErrorStatus(res), Join(ErrorBody(res)))
       ELSE LoggedIn(q1, uuid, res)

\* login.go:192-226: credentials verified, every callback returned nil,
\* CreateSession returns one of `results`
CreateSessionReturns(r, results) ==
    LET q == req[r]
    IN /\ Running
       /\ q.pc = "verify" /\ q.action = "login"
       /\ \E cred \in UUIDs \cup {"bad"}, res \in results :
             LET v == VerifyUserPass(cred)
             IN /\ v.ok /\ ~Needs2Auth(v.uuid)
                /\ Return(r, SessionCreated([q EXCEPT !.cred = cred, !.cbArg = v.uuid,
                                                      !.calls = @ \o <<"VerifyUserPass">>
                                                                  \o OnLoginCalls(NumCallbacks)],
                                            v.uuid, res))
       /\ UNCHANGED <<formSession, now, nextTok, twoAuth, hasFailedSSL, tlsListener, issued, hist>>

CreateSessionStep(r) == CreateSessionReturns(r, CreateResults)

\* CreateSession fails with any of the error messages
CreateSessionFails(r) == CreateSessionReturns(r, AllErrorResults)

\* login.go:255-264: a new form session bound to the requester
NewRecordFromEpoch(pcid) == FormSessionData(pcid, FormCookies[nextTok], Lifetime)

NewRecord(pcid) == FormSessionData(pcid, FormCookies[nextTok], now + Lifetime)

\* login.go:266-275: the form_session cookie of the new record
WithFormCookie(q) == [q EXCEPT !.formOut = FormCookies[nextTok]]

CreateFormSession(pcid, limit) ==
    /\ nextTok <= limit
    /\ formSession' = SyncMapSet(formSession, FormTokens[nextTok], NewRecord(pcid))
    /\ issued' = SyncMapSet(issued, FormTokens[nextTok], NewRecord(pcid))
    /\ hist' = SyncMapSet(hist, FormTokens[nextTok], {})
    /\ nextTok' = nextTok + 1

\* The password step of an identity with 2auth: a new form session for the
\* second step, rendered by Render2Auth (one 2auth form per behaviour, after
\* the login forms)
TwoAuthChallenge(r) ==
    LET q == req[r]
    IN /\ Running
       /\ q.pc = "verify" /\ q.action = "login"
       /\ \E cred \in UUIDs \cup {"bad"} :
             LET v == VerifyUserPass(cred)
             IN /\ v.ok /\ Needs2Auth(v.uuid)
                /\ Return(r, [WithFormCookie(q) EXCEPT
                                !.pc = "done", !.cred = cred, !.cbArg = v.uuid,
                                !.calls = @ \o <<"VerifyUserPass">> \o OnLoginCalls(NumCallbacks)
                                            \o <<"Has2Auth", "Set", "Render2Auth">>,
                                !.render = "2auth", !.renderTok = FormTokens[nextTok]])
       /\ CreateFormSession(q.pcid, MaxTokens + 1)
       /\ UNCHANGED <<now, twoAuth, hasFailedSSL, tlsListener>>

\* the denial of a failed second step
TwoAuthDeniedUnreported(q) ==
    Deny([q EXCEPT !.calls = Append(@, "Verify2Auth")], 401, "Authentication Failed!")

TwoAuthDenied(q) ==
    Deny([q EXCEPT !.calls = @ \o <<"Verify2Auth", "OnFailedAttempt:2auth">>],
         401, "Authentication Failed!")

\* action == "login_2auth": Verify2Auth rejects
TwoAuthRejected(r) ==
    LET q == req[r]
    IN /\ Running
       /\ q.pc = "verify" /\ q.action = "login_2auth"
       /\ \E cred \in UUIDs \cup {"bad"} :
             /\ ~Verify2Auth(cred).ok
             /\ Return(r, TwoAuthDenied([q EXCEPT !.cred = cred]))
       /\ hist' = Mark(q.session, "rejected")
       /\ UNCHANGED <<formSession, now, nextTok, twoAuth, hasFailedSSL, tlsListener, issued>>

\* action == "login_2auth": Verify2Auth affirms, CreateSession follows
TwoAuthVerified(r) ==
    LET q == req[r]
    IN /\ Running
       /\ q.pc = "verify" /\ q.action = "login_2auth"
       /\ \E cred \in UUIDs \cup {"bad"}, res \in CreateResults :
             LET v == Verify2Auth(cred)
             IN /\ v.ok
                /\ Return(r, SessionCreated([q EXCEPT !.cred = cred,
                                                      !.calls = Append(@, "Verify2Auth")],
                                            v.uuid, res))
       /\ UNCHANGED <<formSession, now, nextTok, twoAuth, hasFailedSSL, tlsListener, issued, hist>>

\* login.go:172-177: the request as it enters the part after the action
\* branches; action == "logout" calls RemoveSession and clears the cookie
\* (any action other than "login" and "logout" is handled as "" is)
OtherActions == {"", "logout"}

SessionFields(action) == IF action = "logout" THEN LoginTokens \cup {""} ELSE {""}

EnteredKeepsCookie(action, session, loginCookie) ==
    LET q == [Idle EXCEPT !.action = action, !.session = session, !.loginCookie = loginCookie]
    IN IF action = "logout"
       THEN [q EXCEPT !.calls = <<"RemoveSession">>, !.removed = session]
       ELSE q

EnteredForgetsCookie(action, session, loginCookie) ==
    LET q == [Idle EXCEPT !.action = action, !.session = session, !.loginCookie = loginCookie]
    IN IF action = "logout"
       THEN [q EXCEPT !.calls = <<"RemoveSession">>, !.removed = session, !.loginOut = "clear",
                      !.loginCookie = ""]
       ELSE q

Entered(action, session, loginCookie) ==
    LET q == [Idle EXCEPT !.action = action, !.session = session, !.loginCookie = loginCookie]
    IN IF action = "logout"
       THEN [q EXCEPT !.calls = <<"RemoveSession">>, !.removed = session, !.loginOut = "clear"]
       ELSE q

\* login.go:241-243: the login_session cookie decides
SessionAffirmedUnchecked(loginToken, vs) == loginToken # ""

SessionAffirmedNever(loginToken, vs) == FALSE

SessionAffirmed(loginToken, vs) == loginToken # "" /\ vs.ok

\* VerifySession is called only with a non-empty cookie
SessionAnswers(loginToken) ==
    IF loginToken # "" THEN SessionResults ELSE { [uuid |-> "", ok |-> FALSE] }

AfterVerifySessionReports(q, vs) ==
    IF q.loginCookie # ""
    THEN [q EXCEPT !.calls = Append(@, "VerifySession"), !.answer = vs,
                   !.msg = IF vs.ok THEN "" ELSE "Session Invalid!"]
    ELSE q

AfterVerifySession(q, vs) ==
    IF q.loginCookie # ""
    THEN [q EXCEPT !.calls = Append(@, "VerifySession"), !.answer = vs]
    ELSE q

\* login.go:241-246: forwarded with the identity VerifySession returned
PassThrough ==
    /\ Running
    /\ \E action \in OtherActions, loginCookie \in LoginTokens \cup {""} :
       \E session \in SessionFields(action), vs \in SessionAnswers(loginCookie) :
          /\ SessionAffirmed(loginCookie, vs)
          /\ Probe([AfterVerifySession(Entered(action, session, loginCookie), vs) EXCEPT
                         !.pc = "done", !.uuid = vs.uuid, !.next = TRUE])
    /\ UNCHANGED <<formSession, now, nextTok, req, twoAuth, hasFailedSSL, tlsListener, issued, hist>>

\* login.go:241-278: a login form with a new form session (at most `limit`
\* login forms per behaviour)
ChallengeUpTo(limit) ==
    /\ Running
    /\ \E action \in OtherActions, loginCookie \in LoginTokens \cup {""}, pcid \in Devices :
       \E session \in SessionFields(action), vs \in SessionAnswers(loginCookie) :
          /\ ~SessionAffirmed(loginCookie, vs)
          /\ CreateFormSession(pcid, limit)
          /\ Probe([WithFormCookie(AfterVerifySession(Entered(action, session, loginCookie), vs))
                         EXCEPT !.pc = "done", !.pcid = pcid,
                                !.calls = @ \o <<"Set", "Render">>,
                                !.status = 401,
                                !.render = "login", !.renderTok = FormTokens[nextTok]])
    /\ UNCHANGED <<now, req, twoAuth, hasFailedSSL, tlsListener>>

Challenge == ChallengeUpTo(MaxTokens)

\* the same, with room for one more login form
ChallengeAgain == ChallengeUpTo(MaxTokens + 1)

\* ----------------------------------------------------------- GetLoginSession
\* the action field of a request; GetLoginSession never reads it
AnyActions == {"", "login", "logout", "login_2auth"}

\* login.go:296: return c.Next(), whatever VerifySession answered
GetLoginSessionForwardsIfAffirmed(affirmed) == affirmed

GetLoginSessionForwards(affirmed) == TRUE

\* login.go:287-297: GetLoginSession, mounted beside VerifyLogin
GetLoginSessionStep ==
    /\ Running
    /\ \E action \in AnyActions, loginCookie \in LoginTokens \cup {""} :
       \E vs \in SessionAnswers(loginCookie) :
          LET q == AfterVerifySession([Idle EXCEPT !.handler = "GetLoginSession",
                                                   !.action = action,
                                                   !.loginCookie = loginCookie], vs)
              affirmed == SessionAffirmed(loginCookie, vs)
          IN Probe([q EXCEPT !.pc = "done",
                             !.uuid = IF affirmed THEN vs.uuid ELSE "",
                             !.next = GetLoginSessionForwards(affirmed)])
    /\ UNCHANGED <<formSession, now, nextTok, req, twoAuth, hasFailedSSL, tlsListener, issued, hist>>

\* time passes; the handler only compares time.Now() with the exp of stored
\* records, so the clock starts with the first record
Tick ==
    /\ Running
    /\ now < MaxTime
    /\ nextTok > 1
    /\ now' = now + 1
    /\ last' = Idle
    /\ UNCHANGED <<formSession, nextTok, req, twoAuth, hasFailedSSL, tlsListener, issued, hist>>

Init ==
    /\ formSession = [k \in {} |-> NoData]
    /\ now = 0
    /\ nextTok = 1
    /\ req = [r \in Slots |-> Idle]
    /\ last = Idle
    /\ twoAuth = FALSE
    /\ hasFailedSSL = FALSE
    /\ tlsListener = "none"
    /\ issued = [k \in {} |-> NoData]
    /\ hist = [k \in {} |-> {}]

Next ==
    \/ \E r \in Slots : OnAttemptStep(r)
    \/ \E r \in Slots : GetStep(r)
    \/ \E r \in Slots : DelStep(r)
    \/ \E r \in Slots : CredentialsRejected(r)
    \/ \E r \in Slots : OnLoginDenied(r)
    \/ \E r \in Slots : CreateSessionStep(r)
    \/ PassThrough
    \/ Challenge
    \/ Tick

\* login.go as it is: no 2auth hook is set
Spec == Init /\ [][Next]_vars

\* The same handler with the three 2auth hooks set
Init2Auth ==
    /\ formSession = [k \in {} |-> NoData]
    /\ now = 0
    /\ nextTok = 1
    /\ req = [r \in Slots |-> Idle]
    /\ last = Idle
    /\ twoAuth = TRUE
    /\ hasFailedSSL = FALSE
    /\ tlsListener = "none"
    /\ issued = [k \in {} |-> NoData]
    /\ hist = [k \in {} |-> {}]

Next2Auth ==
    \/ \E r \in Slots2Auth : OnAttemptStep(r)
    \/ \E r \in Slots2Auth : GetStep(r)
    \/ \E r \in Slots2Auth : DelStep(r)
    \/ \E r \in Slots2Auth : CredentialsRejected(r)
    \/ \E r \in Slots2Auth : OnLoginDenied(r)
    \/ \E r \in Slots2Auth : CreateSessionStep(r)
    \/ \E r \in Slots2Auth : TwoAuthChallenge(r)
    \/ \E r \in Slots2Auth : TwoAuthRejected(r)
    \/ \E r \in Slots2Auth : TwoAuthVerified(r)
    \/ PassThrough
    \/ Challenge
    \/ Tick

Spec2Auth == Init2Auth /\ [][Next2Auth]_vars

\* a step of the login request in flight in slot r: each one is the handler
\* going on after a map operation or a hook call has returned
InFlightStep(r) ==
    \/ GetStep(r)
    \/ DelStep(r)
    \/ CredentialsRejected(r)
    \/ OnLoginDenied(r)
    \/ CreateSessionStep(r)

\* the exposed response is put aside and the requests go on
Resume ==
    /\ last # Idle
    /\ last' = Idle
    /\ UNCHANGED <<formSession, now, nextTok, req, twoAuth, hasFailedSSL, tlsListener, issued, hist>>

\* one login request at a time among the requests without login
NextLive ==
    \/ OnAttemptStep("r1")
    \/ InFlightStep("r1")
    \/ PassThrough
    \/ Challenge
    \/ Tick
    \/ Resume

\* Every hook call returns and the goroutine of the request is scheduled: a
\* handler that can go on again and again does go on
SpecLive ==
    /\ Init /\ [][NextLive]_vars
    /\ WF_vars(Resume)
    /\ SF_vars(InFlightStep("r1"))

\* Requests that submit no login: the part of the handler after the action
\* branches (logout, no action), with a second login form
NextSession ==
    \/ PassThrough
    \/ ChallengeAgain
    \/ Tick

SpecSession == Init /\ [][NextSession]_vars

\* GetLoginSession on requests of every kind, while VerifyLogin issues login
\* forms
NextPassive ==
    \/ GetLoginSessionStep
    \/ ChallengeAgain
    \/ Tick

SpecPassive == Init /\ [][NextPassive]_vars

\* One login request at a time among requests that get one login form more,
\* while the clock runs: records of different ages in the map
NextStore ==
    \/ OnAttemptStep("r1")
    \/ InFlightStep("r1")
    \/ ChallengeAgain
    \/ Tick

SpecStore == Init /\ [][NextStore]_vars

\* Login requests of two slots interleaved with each other and with requests
\* that get one login form more
NextConcurrent ==
    \/ \E r \in Slots : OnAttemptStep(r)
    \/ \E r \in Slots : InFlightStep(r)
    \/ ChallengeAgain

SpecConcurrent == Init /\ [][NextConcurrent]_vars

\* Two login requests among requests that get a login form, where the hooks
\* of the request of slot r2 return and those of slot r1 may never do
NextBlocked ==
    \/ \E r \in Slots : OnAttemptStep(r)
    \/ \E r \in Slots : InFlightStep(r)
    \/ Challenge
    \/ Resume

SpecBlocked ==
    /\ Init /\ [][NextBlocked]_vars
    /\ WF_vars(Resume)
    /\ SF_vars(InFlightStep("r2"))

\* Every handler that reads or writes the form sessions, on requests of every
\* kind: VerifyLogin in two slots and GetLoginSession
NextFrame ==
    \/ Next
    \/ GetLoginSessionStep

SpecFrame == Init /\ [][NextFrame]_vars

\* One login request at a time, up to a CreateSession that fails with any
\* error message
NextCreate ==
    \/ Challenge
    \/ OnAttemptStep("r1")
    \/ GetStep("r1")
    \/ DelStep("r1")
    \/ CreateSessionFails("r1")

SpecCreate == Init /\ [][NextCreate]_vars

\* ------------------------------------------------------------ VerifyOrigin
\* Host headers, as sequences of characters: a letter, the colon and a digit
HostChars == {"a", ":", "8"}

Hostnames == UNION { [1..n -> HostChars] : n \in 0..MaxHostLen }

\* the domains and proxy addresses an application lists
OriginNames == {<<"a">>, <<"a", ":", "8">>}

IPs == {"10.0.0.1", "10.0.0.2"}

OriginLists == UNION { [1..n -> OriginNames] : n \in 0..MaxListLen }

ProxyLists == UNION { [1..n -> IPs] : n \in 0..MaxListLen }

\* `:[0-9]+$` matches at position i of s
RECURSIVE DigitsToEnd(_, _)
DigitsToEnd(s, i) ==
    IF i > Len(s) THEN TRUE
    ELSE IsDigit(s[i]) /\ DigitsToEnd(s, i + 1)

PortMatchAt(s, i) == s[i] = ":" /\ i < Len(s) /\ DigitsToEnd(s, i + 1)

\* RepStrLit(s, []byte{}) of `:[0-9]+$`: the text that matches, searched from
\* the left, is replaced with nothing
RECURSIVE StripPortFrom(_, _)
StripPortFrom(s, i) ==
    IF i > Len(s) THEN s
    ELSE IF PortMatchAt(s, i) THEN SubSeq(s, 1, i - 1)
    ELSE StripPortFrom(s, i + 1)

StripPortNever(s) == s

StripPort(s) == StripPortFrom(s, 1)

\* the loops over origin and over proxy
RECURSIVE ListHas(_, _)
ListHas(list, x) ==
    IF list = <<>> THEN FALSE
    ELSE IF Head(list) = x THEN TRUE
    ELSE ListHas(Tail(list), x)

\* a request as VerifyOrigin reads it, and what the handler has done with it
OriginRequest(host, ip, trusted, origin, proxy, handleErr) ==
    [ handler |-> "VerifyOrigin", pc |-> "done",
      host |-> host, ip |-> ip, trusted |-> trusted,
      origin |-> origin, proxy |-> proxy, handleErr |-> handleErr,
      status |-> 0, body |-> <<>>, handled |-> FALSE, err |-> <<>>, next |-> FALSE ]

\* the error goes to handleErr[0] if there is one, else 403 with the text
OriginError(q, text) ==
    IF q.handleErr THEN [q EXCEPT !.handled = TRUE, !.err = text]
    ELSE [q EXCEPT !.status = 403, !.body = text]

VerifyOriginResult(q) ==
    LET hostname == StripPort(q.host)
    IN IF ~ListHas(q.origin, hostname)
         THEN OriginError(q, <<"Origin Not Allowed: ", hostname>>)
       ELSE IF ~ListHas(q.proxy, q.ip) \/ ~q.trusted
         THEN OriginError(q, <<"IP Proxy Not Allowed: ", q.ip>>)
       ELSE [q EXCEPT !.next = TRUE]

VerifyOriginStep ==
    /\ Running
    /\ \E host \in Hostnames, ip \in IPs, trusted \in BOOLEAN,
          origin \in OriginLists, proxy \in ProxyLists, handleErr \in BOOLEAN :
          Probe(VerifyOriginResult(OriginRequest(host, ip, trusted, origin, proxy, handleErr)))
    /\ UNCHANGED <<formSession, now, nextTok, req, twoAuth, hasFailedSSL, tlsListener, issued, hist>>

NextOrigin == VerifyOriginStep

SpecOrigin == Init /\ [][NextOrigin]_vars

\* ------------------------------------------------- RedirectSSL, ListenAutoTLS
\* port numbers: of the Host header (0: none), of the connection, and the
\* arguments httpPort and sslPort of the middleware
Ports == {80, 443, 8443}

PortArguments == {<<80, 443>>, <<80, 8443>>}

\* webext.go:155-156: ListenAutoTLS starts the goroutine of the TLS listener
\* (it may be called again after the listener has ended)
ListenAutoTLS ==
    /\ Running
    /\ tlsListener # "listening"
    /\ tlsListener' = "listening"
    /\ UNCHANGED <<formSession, now, nextTok, req, last, twoAuth, issued, hist, hasFailedSSL>>

\* webext.go:156-159: app.ListenTLS returns; an error sets hasFailedSSL
ListenTLSReturns ==
    /\ Running
    /\ tlsListener = "listening"
    /\ \E failed \in BOOLEAN :
          /\ tlsListener' = IF failed THEN "failed" ELSE "closed"
          /\ hasFailedSSL' = IF failed THEN TRUE ELSE hasFailedSSL
    /\ UNCHANGED <<formSession, now, nextTok, req, last, twoAuth, issued, hist>>

\* the values a handler may read from hasFailedSSL: the goroutine writes and
\* the handlers read it with no synchronisation, so a handler may still read
\* the initial value after the write
ReadHasFailedSSL == {hasFailedSSL, FALSE}

\* a request as RedirectSSL reads it
SSLRequest(secure, hostPort, port, httpPort, sslPort, failed) ==
    [ handler |-> "RedirectSSL", pc |-> "done",
      secure |-> secure, hostPort |-> hostPort, port |-> port,
      httpPort |-> httpPort, sslPort |-> sslPort, failed |-> failed,
      written |-> hasFailedSSL,
      status |-> 0, location |-> <<>>, next |-> FALSE ]

\* webext.go:98-117
RedirectSSLResult(q) ==
    IF q.secure \/ q.failed THEN [q EXCEPT !.next = TRUE]
    ELSE IF /\ q.hostPort # q.sslPort /\ q.hostPort # 443
            /\ q.port # q.sslPort /\ q.port # 443
         THEN IF q.hostPort = q.httpPort \/ q.port = q.httpPort
              THEN [q EXCEPT !.status = 301,
                             !.location = <<"https://", "hostname", ":", q.sslPort, "url">>]
              ELSE [q EXCEPT !.status = 301,
                             !.location = <<"https://", "hostname", "url">>]
         ELSE [q EXCEPT !.next = TRUE]

RedirectSSLStep ==
    /\ Running
    /\ \E secure \in BOOLEAN, hostPort \in Ports \cup {0}, port \in Ports,
          args \in PortArguments, failed \in ReadHasFailedSSL :
          Probe(RedirectSSLResult(SSLRequest(secure, hostPort, port, args[1], args[2], failed)))
    /\ UNCHANGED <<formSession, now, nextTok, req, twoAuth, issued, hist, hasFailedSSL, tlsListener>>

NextSSL ==
    \/ ListenAutoTLS
    \/ ListenTLSReturns
    \/ RedirectSSLStep

SpecSSL == Init /\ [][NextSSL]_vars

\* ------------------------------------------------------- GenRsaKeyIfNeeded
\* A modification time: the year and the milliseconds since the year began
Years == {2025, 2026}

Millis == {0, 59999, 60000}

ModTimes == { [year |-> y, ms |-> m] : y \in Years, m \in Millis }

\* os.Stat of a path: err # nil, or the time of the last modification
NoFile == [exists |-> FALSE, time |-> [year |-> 0, ms |-> 0]]

Stats == {NoFile} \cup { [exists |-> TRUE, time |-> t] : t \in ModTimes }

\* t.UnixMilli() / 60000: the minute of t
Minute(t) == <<t.year, t.ms \div MsPerMinute>>

\* how GenRsaKey ends: "ok"; "rsa": rsa.GenerateKey or x509.CreateCertificate
\* fails, no file written; "crt": the write of the certificate fails; "key":
\* the certificate is written and the write of the key fails
GenOutcomes == {"ok", "rsa", "crt", "key"}

\* The files: the content of each path ("none": no such file)
Files(crt, key, crtOld, keyOld) == [crt |-> crt, key |-> key, crtOld |-> crtOld, keyOld |-> keyOld]

\* webext.go:260-327
GenRsaKey(f, outcome) ==
    CASE outcome = "ok"  -> [files |-> [f EXCEPT !.crt = "new crt", !.key = "new key"], err |-> FALSE]
      [] outcome = "rsa" -> [files |-> f, err |-> TRUE]
      [] outcome = "crt" -> [files |-> [f EXCEPT !.crt = "broken"], err |-> TRUE]
      [] outcome = "key" -> [files |-> [f EXCEPT !.crt = "new crt", !.key = "broken"], err |-> TRUE]

\* webext.go:223: regenerate if cert and key not synced || its been 1 year
RegenerationDueAnyYear(crtTime, keyTime, nowYear) ==
    Minute(crtTime) # Minute(keyTime) \/ nowYear # crtTime.year

RegenerationDue(crtTime, keyTime, nowYear) ==
    Minute(crtTime) # Minute(keyTime) \/ nowYear > crtTime.year

\* webext.go:237-248: GenRsaKey failed; each file is copied back from its
\* .old copy, and the copy is removed if that went well
Restored(f, crtBack, keyBack) ==
    LET f1 == IF crtBack THEN [f EXCEPT !.crt = f.crtOld, !.crtOld = "none"] ELSE f
    IN IF keyBack THEN [f1 EXCEPT !.key = f1.keyOld, !.keyOld = "none"] ELSE f1

\* webext.go:207-252. in: the stats, the files and how each copy and
\* GenRsaKey will end
GenRsaKeyIfNeeded(in) ==
    LET f == in.files
    IN IF ~in.crtStat.exists \/ ~in.keyStat.exists
       THEN LET g == GenRsaKey(f, in.gen)
            IN [files |-> g.files, err |-> g.err, called |-> TRUE]
       ELSE IF RegenerationDue(in.crtStat.time, in.keyStat.time, in.nowYear)
       THEN IF ~in.crtSaved
            THEN [files |-> [f EXCEPT !.crtOld = "none"], err |-> TRUE, called |-> FALSE]
            ELSE IF ~in.keySaved
            THEN [files |-> [f EXCEPT !.crtOld = "none", !.keyOld = "none"],
                  err |-> TRUE, called |-> FALSE]
            ELSE LET g == GenRsaKey([f EXCEPT !.crtOld = f.crt, !.keyOld = f.key], in.gen)
                 IN IF g.err
                    THEN [files |-> Restored(g.files, in.crtBack, in.keyBack),
                          err |-> TRUE, called |-> TRUE]
                    ELSE [files |-> g.files, err |-> FALSE, called |-> TRUE]
       ELSE [files |-> f, err |-> FALSE, called |-> FALSE]

\* the files before the call: those that os.Stat finds, and .old copies that
\* an earlier call may have left
FilesBefore(crtStat, keyStat, left) ==
    Files(IF crtStat.exists THEN "crt" ELSE "none",
          IF keyStat.exists THEN "key" ELSE "none",
          IF left THEN "older crt" ELSE "none",
          IF left THEN "older key" ELSE "none")

GenRsaKeyIfNeededStep ==
    /\ Running
    /\ \E crtStat \in Stats, keyStat \in Stats, nowYear \in Years, left \in BOOLEAN,
          gen \in GenOutcomes, crtSaved \in BOOLEAN, keySaved \in BOOLEAN,
          crtBack \in BOOLEAN, keyBack \in BOOLEAN :
          LET in == [ crtStat |-> crtStat, keyStat |-> keyStat, nowYear |-> nowYear,
                      files |-> FilesBefore(crtStat, keyStat, left), gen |-> gen,
                      crtSaved |-> crtSaved, keySaved |-> keySaved,
                      crtBack |-> crtBack, keyBack |-> keyBack ]
          IN Probe([ handler |-> "GenRsaKeyIfNeeded", pc |-> "done",
                     in |-> in, out |-> GenRsaKeyIfNeeded(in) ])
    /\ UNCHANGED <<formSession, now, nextTok, req, twoAuth, issued, hist, hasFailedSSL, tlsListener>>

NextCert == GenRsaKeyIfNeededStep

SpecCert == Init /\ [][NextCert]_vars

\* ================================================================ properties
InCalls(q, name) == \E i \in 1..Len(q.calls) : q.calls[i] = name

Count(q, name) == Cardinality({ i \in 1..Len(q.calls) : q.calls[i] = name })

\* every request of the state: those in flight and the completed one
Requests == { req[r] : r \in Slots } \cup {last}

Completed(q) == q.pc = "done"

\* the request got past the form-session checks of login.go:187-189
PassedRedemption(q) ==
    q.pc = "verify" \/ InCalls(q, "VerifyUserPass") \/ InCalls(q, "Verify2Auth")

\* the request looked its token up and was turned away (login.go:236-238)
FailedRedemption(q) ==
    /\ Completed(q) /\ q.status = 408 /\ q.msg = "Session Invalid Or Expired!"
    /\ ~PassedRedemption(q)

\* C1: once a login request has redeemed a form session (token, fingerprint
\* and cookie secret matching, before expiry), every login request that looks
\* the same token up afterwards fails redemption and is answered 408.
C1_SingleUse ==
    \A q \in Requests :
        "redeemed" \in q.prior =>
            /\ q.pc \notin {"del", "verify"}
            /\ Completed(q) => FailedRedemption(q)

C1_Witness ==
    /\ Completed(last) /\ last.action = "login"
    /\ "redeemed" \in last.prior
    /\ last.session \in DOMAIN issued
    /\ last.status = 408

\* C2: of the login requests racing on one valid form token, with matching
\* fingerprint and cookie secret, at most one passes redemption.
C2_OneRedeemer ==
    \A r1 \in Slots :
        req[r1].pc = "verify" =>
            /\ \A r2 \in Slots \ {r1} :
                  req[r2].pc = "verify" => req[r2].session # req[r1].session
            /\ ~(PassedRedemption(last) /\ last.session = req[r1].session)

\* C3: VerifyUserPass, OnLogin and CreateSession are reached only by a
\* request whose token was in the store with the requester's fingerprint,
\* the request's form_session cookie and an expiry later than the clock.
C3_HonoredOnlyIfBound ==
    \A q \in Requests :
        (PassedRedemption(q) \/ InCalls(q, "OnLogin") \/ InCalls(q, "CreateSession")) =>
            /\ q.found
            /\ q.session \in DOMAIN issued
            /\ q.got = issued[q.session]
            /\ q.got.pcid = q.pcid
            /\ q.got.cookie = q.formCookie
            /\ q.unexpired

C3_Witness ==
    /\ Completed(last) /\ InCalls(last, "VerifyUserPass")
    /\ last.got.pcid = last.pcid /\ last.unexpired

\* C4: a login request presenting a token at or after its record's expiresAt
\* fails redemption, and the attempt removes the record from the store.
C4_ExpiredIsRemoved ==
    (Completed(last) /\ last.found /\ ~last.unexpired) =>
        /\ FailedRedemption(last)
        /\ last.session \notin DOMAIN formSession

\* C5: a login request presenting the token of a present, unexpired record
\* from another fingerprint deletes the record, so that a later login from the
\* original device with the right cookie secret is answered 408 too.
C5_MismatchConsumes ==
    /\ (Completed(last) /\ last.found /\ last.unexpired /\ last.got.pcid # last.pcid) =>
           /\ FailedRedemption(last)
           /\ last.session \notin DOMAIN formSession
    /\ (Completed(last) /\ "pcid" \in last.prior /\ InCalls(last, "Get")) =>
           FailedRedemption(last)

\* C6: a form session is consumed by the login attempt whose credentials are
\* rejected: the record is gone when the 401 is sent, and every login request
\* that looks the token up afterwards is answered 408, whatever it carries.
C6_ConsumedByRejectedLogin ==
    /\ (Completed(last) /\ InCalls(last, "OnFailedAttempt")) =>
           /\ last.status = 401
           /\ last.session \notin DOMAIN formSession
    /\ \A q \in Requests :
           "rejected" \in q.prior =>
               /\ q.pc \notin {"del", "verify"}
               /\ Completed(q) => FailedRedemption(q)

C6_Witness ==
    /\ Completed(last) /\ last.action = "login"
    /\ "rejected" \in last.prior
    /\ last.status = 408 /\ ~InCalls(last, "VerifyUserPass")

\* the challenge of a request without action and without cookies
IsChallenge(q) ==
    /\ q.render = "login" /\ q.status = 401 /\ ~q.next
    /\ q.renderTok \in DOMAIN formSession
    /\ formSession[q.renderTok] = FormSessionData(q.pcid, q.formOut, now + Lifetime)
    /\ q.formOut \notin {"", "clear"}

\* every registered OnLogin callback was invoked and returned nil
AllCallbacksPassed(q) == Count(q, "OnLogin") = NumCallbacks /\ q.rejectedBy = 0

\* C7: end to end. A request without action and cookies gets a form session:
\* token T in the form, the secret in the form_session cookie. A login request
\* that finds T in the store, with the same fingerprint and that cookie, before
\* expiry, allowed by OnAttempt, affirmed by VerifyUserPass with uuid U, every
\* OnLogin callback returning nil and CreateSession succeeding, gets the
\* login_session cookie set to CreateSession's token, U attached, and is
\* forwarded.
C7_EndToEnd ==
    /\ (Completed(last) /\ last.action = "" /\ last.loginCookie = "") => IsChallenge(last)
    /\ (Completed(last) /\ last.action = "login" /\ InCalls(last, "Get")
           /\ last.found /\ last.got.pcid = last.pcid /\ last.unexpired) =>
           /\ InCalls(last, "Del")
           /\ last.formCookie = last.got.cookie =>
                 /\ InCalls(last, "VerifyUserPass")
                 /\ (VerifyUserPass(last.cred).ok /\ ~Needs2Auth(VerifyUserPass(last.cred).uuid)) =>
                       /\ Count(last, "OnLogin") >= 1
                       /\ AllCallbacksPassed(last) =>
                             /\ InCalls(last, "CreateSession")
                             /\ last.created.text = <<>> =>
                                   /\ last.loginOut = last.created.token
                                   /\ last.uuid = VerifyUserPass(last.cred).uuid
                                   /\ last.next
                                   /\ last.status = 0

C7_Witness ==
    /\ Completed(last) /\ last.action = "login"
    /\ last.found /\ last.got.pcid = last.pcid /\ last.unexpired
    /\ last.formCookie = last.got.cookie
    /\ last.cred \in UUIDs /\ AllCallbacksPassed(last)
    /\ InCalls(last, "CreateSession") /\ last.created.text = <<>>
    /\ last.next /\ last.uuid = last.cred /\ last.loginOut \in LoginTokens

\* the full login path of login.go:186-226
FullLogin(q) ==
    /\ q.action = "login"
    /\ InCalls(q, "Del") /\ q.found /\ q.got.pcid = q.pcid /\ q.unexpired
    /\ q.formCookie = q.got.cookie
    /\ InCalls(q, "VerifyUserPass") /\ VerifyUserPass(q.cred).ok
    /\ q.uuid = VerifyUserPass(q.cred).uuid
    /\ AllCallbacksPassed(q)
    /\ InCalls(q, "CreateSession") /\ q.created.text = <<>>

\* VerifySession affirmed the request's login_session cookie
SessionPath(q) ==
    /\ q.action # "login"
    /\ q.loginCookie # "" /\ InCalls(q, "VerifySession")
    /\ q.answer.ok /\ q.uuid = q.answer.uuid

\* C8: VerifyLogin forwards a request only with a uuid produced in that same
\* request, by VerifySession affirming its login_session cookie or by the full
\* login path; the handler keeps no login token between requests.
C8_ForwardedOnlyVerified ==
    \A q \in Requests :
        (q.next \/ q.uuid # "") =>
            /\ q.next /\ q.uuid \in UUIDs
            /\ SessionPath(q) \/ FullLogin(q)

C8_Witness ==
    /\ Completed(last) /\ last.next /\ SessionPath(last) /\ last.action = "logout"

\* a password login that VerifyUserPass affirmed for an identity with 2auth
\* and that no OnLogin callback rejected
PasswordStepWith2Auth(q) ==
    /\ Completed(q) /\ q.action = "login"
    /\ InCalls(q, "VerifyUserPass") /\ VerifyUserPass(q.cred).ok
    /\ twoAuth /\ Has2Auth(VerifyUserPass(q.cred).uuid)
    /\ q.rejectedBy = 0

C10_WitnessSuccess ==
    /\ Completed(last) /\ last.action = "login_2auth"
    /\ InCalls(last, "CreateSession") /\ last.next

\* C11: every logout request clears the login_session cookie on the response
\* and calls RemoveSession exactly once, whether VerifySession affirms the
\* request's login_session cookie, rejects it, or is not asked at all.
C11_LogoutClearsAndRemoves ==
    (Completed(last) /\ last.action = "logout") =>
        /\ last.loginOut = "clear"
        /\ Count(last, "RemoveSession") = 1
        /\ last.calls[1] = "RemoveSession"

C11_Witness ==
    /\ Completed(last) /\ last.action = "logout"
    /\ InCalls(last, "VerifySession") /\ ~last.answer.ok
    /\ last.loginOut = "clear" /\ InCalls(last, "RemoveSession")

\* the logout of a request whose login_session cookie is still valid
C11_WitnessValid ==
    /\ Completed(last) /\ last.action = "logout"
    /\ last.answer.ok /\ last.next
    /\ last.loginOut = "clear" /\ InCalls(last, "RemoveSession")

\* C12: on a logout request the argument given to RemoveSession is the token
\* carried by the request's login_session cookie.
C12_RemovesCookieToken ==
    (Completed(last) /\ last.action = "logout") => last.removed = last.loginCookie

\* the outcome of a logout request: no login step was taken, and the request
\* ended as a request without action ends
LogoutOutcome(q) ==
    /\ ~InCalls(q, "OnAttempt") /\ ~InCalls(q, "Get") /\ ~InCalls(q, "Del")
    /\ ~InCalls(q, "VerifyUserPass") /\ ~InCalls(q, "CreateSession")
    /\ q.status \notin {408, 429}
    /\ q.msg = ""
    /\ IF q.loginCookie # "" /\ q.answer.ok
       THEN /\ q.next /\ q.uuid = q.answer.uuid
            /\ q.render = "" /\ q.formOut = "" /\ ~InCalls(q, "Set")
       ELSE /\ IsChallenge(q)
            /\ q.uuid = ""
            /\ PriorOf(q.renderTok) = {}
            /\ q.calls = (IF q.loginCookie # "" THEN <<"RemoveSession", "VerifySession">>
                          ELSE <<"RemoveSession">>) \o <<"Set", "Render">>

\* the records of the store are those of before, untouched, with at most the
\* new record of the challenge added
RecordsKept(q) ==
    /\ \A k \in DOMAIN formSession :
          k \in DOMAIN formSession' /\ formSession'[k] = formSession[k]
    /\ \A k \in DOMAIN formSession' :
          k \in DOMAIN formSession \/ (q.render = "login" /\ k = q.renderTok)

\* C13: a logout request has no terminal outcome of its own. After
\* RemoveSession and the clearing of the cookie it ends as a request without
\* action does: OnAttempt is not called, no 408 or 429 is sent, the records
\* already in the store are left as they are, and the request is either
\* forwarded or answered with the login form of a newly created form session.
C13_LogoutFallsThrough ==
    /\ []((Completed(last) /\ last.action = "logout") => LogoutOutcome(last))
    /\ [][(Completed(last') /\ last'.action = "logout") => RecordsKept(last')]_vars

C13_Witness ==
    /\ Completed(last) /\ last.action = "logout"
    /\ IsChallenge(last)
    /\ Cardinality(DOMAIN formSession) = 2

\* OnAttempt returned false: the handler returned with no other call made
AttemptDenied(q) == Completed(q) /\ q.action = "login" /\ q.calls = <<"OnAttempt">>

\* C14: on a login request OnAttempt is the first call, made before the
\* form-session store is consulted; when it returns false the request ends
\* with status 429 and the message "Too Many Login Attempts", and
\* VerifyUserPass, OnLogin and CreateSession are not called.
C14_AttemptLimited ==
    /\ \A q \in Requests : q.action = "login" => q.calls[1] = "OnAttempt"
    /\ AttemptDenied(last) =>
          /\ last.status = 429
          /\ last.msg \in {"Too Many Login Attempts", "Too Many Login Attempts!"}
          /\ ~last.next /\ last.loginOut = ""

\* why the redemption of a completed login request failed ("none": it did
\* not fail); the form_session cookie is read once token, fingerprint and
\* expiry have passed
RedemptionCause(q) ==
    IF ~q.found THEN "absent"
    ELSE IF ~q.unexpired THEN "expired"
    ELSE IF q.got.pcid # q.pcid THEN "fingerprint"
    ELSE IF q.formCookie # q.got.cookie THEN "secret"
    ELSE "none"

\* a completed login request that looked its token up and whose redemption
\* failed
RedemptionFailed(q) ==
    /\ Completed(q) /\ q.action = "login" /\ InCalls(q, "Get")
    /\ RedemptionCause(q) # "none"

\* C15: every failure of the form-session redemption of a login request
\* (token not in the store, record expired, other fingerprint, form_session
\* cookie missing or different from the stored secret) clears the
\* form_session cookie and ends the request with 408 "Session Invalid Or
\* Expired", with no call of VerifyUserPass, OnFailedAttempt, OnLogin or
\* CreateSession and no login_session cookie.
C15_RedemptionFailure ==
    RedemptionFailed(last) =>
        /\ last.formOut = "clear"
        /\ last.status = 408 /\ last.msg = "Session Invalid Or Expired!"
        /\ ~InCalls(last, "VerifyUserPass") /\ ~InCalls(last, "OnFailedAttempt")
        /\ ~InCalls(last, "OnLogin") /\ ~InCalls(last, "CreateSession")
        /\ last.loginOut = "" /\ ~last.next /\ last.uuid = ""

\* the form_session cookie is left out of an otherwise valid login request
C15_Witness ==
    /\ RedemptionFailed(last) /\ RedemptionCause(last) = "secret"
    /\ last.formCookie = ""
    /\ last.status = 408 /\ last.formOut = "clear"

\* what the client sees of a response: status, body, the two cookies, the
\* rendered form and its token
Response(q) ==
    [ status |-> q.status, body |-> q.msg, form_session |-> q.formOut,
      login_session |-> q.loginOut, render |-> q.render, token |-> q.renderTok ]

\* the one response of a failed redemption
RedemptionDenial ==
    [ status |-> 408, body |-> "Session Invalid Or Expired!", form_session |-> "clear",
      login_session |-> "", render |-> "", token |-> "" ]

\* C16: the response to a failed form-session redemption is the same for
\* every cause. Every such response, in every behaviour, is the one value
\* RedemptionDenial, which depends on nothing of the request or the store: any
\* two login requests that differ only in why the redemption fails get
\* identical responses.
C16_CauseNotLeaked ==
    \A cause \in {"absent", "expired", "fingerprint", "secret"} :
        (RedemptionFailed(last) /\ RedemptionCause(last) = cause) =>
            Response(last) = RedemptionDenial

C16_Witness ==
    /\ RedemptionFailed(last) /\ RedemptionCause(last) = "expired"
    /\ Response(last) = RedemptionDenial

C16_WitnessAbsent ==
    /\ RedemptionFailed(last) /\ RedemptionCause(last) = "absent"
    /\ last.session \in DOMAIN issued

C16_WitnessFingerprint ==
    /\ RedemptionFailed(last) /\ RedemptionCause(last) = "fingerprint"

C16_WitnessSecret ==
    /\ RedemptionFailed(last) /\ RedemptionCause(last) = "secret"
    /\ last.formCookie # ""

\* C17: when a login request has passed the redemption and VerifyUserPass
\* returns not verified, OnFailedAttempt is called exactly once and the request
\* ends with 401 "Incorrect Username Or Password"; no OnLogin callback and no
\* CreateSession is called and no login_session cookie is set.
C17_RejectedCredentials ==
    (Completed(last) /\ last.action = "login"
        /\ InCalls(last, "VerifyUserPass") /\ ~VerifyUserPass(last.cred).ok) =>
        /\ Count(last, "OnFailedAttempt") = 1
        /\ last.calls = <<"OnAttempt", "Get", "Del", "VerifyUserPass", "OnFailedAttempt">>
        /\ last.status = 401 /\ last.msg = "Incorrect Username Or Password!"
        /\ ~InCalls(last, "OnLogin") /\ ~InCalls(last, "CreateSession")
        /\ last.loginOut = "" /\ ~last.next /\ last.uuid = ""

C17_Witness ==
    /\ Completed(last) /\ last.action = "login"
    /\ InCalls(last, "VerifyUserPass") /\ last.cred = "bad"
    /\ InCalls(last, "OnFailedAttempt") /\ last.status = 401

\* the calls of a login request up to VerifyUserPass
UpToVerifyUserPass == <<"OnAttempt", "Get", "Del", "VerifyUserPass">>

\* C18: after VerifyUserPass succeeds the registered OnLogin callbacks are
\* invoked with its uuid, one after the other from the first; the first to
\* return an error ends the sequence: the callbacks after it are not invoked,
\* CreateSession is not called and the request is denied with 401 and that
\* callback's message. CreateSession is called only when every callback
\* returned nil.
C18_OnLoginSequence ==
    (Completed(last) /\ last.action = "login"
        /\ InCalls(last, "VerifyUserPass") /\ VerifyUserPass(last.cred).ok) =>
        /\ last.cbArg = VerifyUserPass(last.cred).uuid
        /\ IF last.rejectedBy # 0
           THEN /\ last.calls = UpToVerifyUserPass \o [i \in 1..last.rejectedBy |-> "OnLogin"]
                /\ last.status = 401
                /\ last.msg = "denied by callback " \o ToString(last.rejectedBy)
                /\ ~last.next /\ last.loginOut = "" /\ last.uuid = ""
           ELSE /\ SubSeq(last.calls, 1, 4 + NumCallbacks)
                      = UpToVerifyUserPass \o [i \in 1..NumCallbacks |-> "OnLogin"]
                /\ Count(last, "OnLogin") = NumCallbacks
        /\ InCalls(last, "CreateSession") =>
              /\ last.rejectedBy = 0
              /\ last.calls[Len(last.calls)] = "CreateSession"
              /\ Len(last.calls) = 5 + NumCallbacks

\* the first of several callbacks rejects: the others are not invoked
C18_Witness ==
    /\ Completed(last) /\ last.action = "login"
    /\ last.rejectedBy = 1 /\ NumCallbacks > 1
    /\ Count(last, "OnLogin") = 1
    /\ last.status = 401 /\ ~InCalls(last, "CreateSession")

C18_WitnessAllPass ==
    /\ Completed(last) /\ last.action = "login"
    /\ last.rejectedBy = 0 /\ Count(last, "OnLogin") = NumCallbacks
    /\ InCalls(last, "CreateSession")

\* the message starts with one or more digits and a colon; the digits
HasStatusPrefix(t) ==
    \E n \in 1..(Len(t) - 1) : (\A i \in 1..n : IsDigit(t[i])) /\ t[n + 1] = ":"

StatusDigits(t) ==
    LET n == CHOOSE n \in 1..(Len(t) - 1) : (\A i \in 1..n : IsDigit(t[i])) /\ t[n + 1] = ":"
    IN SubSeq(t, 1, n)

\* the message without that prefix and the whitespace after it
RECURSIVE TrimLeft(_)
TrimLeft(t) == IF t # <<>> /\ t[1] = " " THEN TrimLeft(Tail(t)) ELSE t

WithoutStatusPrefix(t) ==
    IF HasStatusPrefix(t) THEN TrimLeft(SubSeq(t, Len(StatusDigits(t)) + 2, Len(t))) ELSE t

\* a login request that CreateSession ended with an error
CreateSessionFailed(q) ==
    Completed(q) /\ InCalls(q, "CreateSession") /\ q.created.text # <<>>

\* the status of C19 alone
StatusFromPrefix ==
    CreateSessionFailed(last) =>
        last.status = (IF HasStatusPrefix(last.created.text)
                       THEN Atoi(StatusDigits(last.created.text)) ELSE 401)

\* C19: when CreateSession returns an error, the status of the response is
\* the integer of the leading "<digits>:" of the error message when there is
\* one and 401 otherwise, and the body is the message without that prefix and
\* the whitespace after it: "503: o" gives status 503 and body "o".
C19_ErrorPrefix ==
    CreateSessionFailed(last) =>
        /\ last.status = (IF HasStatusPrefix(last.created.text)
                          THEN Atoi(StatusDigits(last.created.text)) ELSE 401)
        /\ last.msg = Join(WithoutStatusPrefix(last.created.text))
        /\ ~last.next /\ last.loginOut = ""

\* a completed request without action whose non-empty login_session cookie
\* VerifySession affirmed
AffirmedNoAction(q) ==
    /\ Completed(q) /\ q.action = ""
    /\ q.loginCookie # "" /\ q.answer.ok

\* C20: a request without action whose login_session cookie is non-empty and
\* affirmed by VerifySession is forwarded with the uuid VerifySession
\* returned; it creates no form session and sets no form_session cookie.
C20_SessionForwarded ==
    /\ [](AffirmedNoAction(last) =>
             /\ last.next /\ last.uuid = last.answer.uuid
             /\ last.calls = <<"VerifySession">>
             /\ last.formOut = "" /\ last.loginOut = ""
             /\ last.render = "" /\ last.renderTok = "" /\ last.status = 0)
    /\ [][AffirmedNoAction(last') =>
             (formSession' = formSession /\ nextTok' = nextTok)]_vars

C20_Witness ==
    /\ AffirmedNoAction(last)
    /\ last.next /\ last.uuid \in UUIDs
    /\ DOMAIN formSession # {}

\* a completed request without action that is not forwarded by its
\* login_session cookie: the cookie is absent, or VerifySession rejected it
Unauthenticated(q) ==
    /\ Completed(q) /\ q.action = ""
    /\ ~(q.loginCookie # "" /\ q.answer.ok)

\* the response of a challenge is made of the new record alone
ChallengeResponse(token) ==
    [ status |-> 401, body |-> "", form_session |-> formSession[token].cookie,
      login_session |-> "", render |-> "login", token |-> token ]

\* exactly one record was inserted, under a new token
OneRecordInserted(token) ==
    /\ token \notin DOMAIN formSession
    /\ DOMAIN formSession' = DOMAIN formSession \cup {token}
    /\ \A k \in DOMAIN formSession : formSession'[k] = formSession[k]

C21_WitnessAbsent ==
    /\ Unauthenticated(last) /\ last.loginCookie = ""
    /\ last.render = "login"
    /\ Cardinality(DOMAIN formSession) = 2

\* C22: when a challenge is issued (the login form rendered with a new form
\* token), the status the handler sets on the response is in the 200 range.
C22_ChallengeStatus ==
    (Completed(last) /\ last.render = "login" /\ last.renderTok \in DOMAIN formSession) =>
        last.status \in 200..299

\* a request that GetLoginSession has handled
Resolved(q) == Completed(q) /\ q.handler = "GetLoginSession"

\* C23: GetLoginSession always forwards the request and never sets a status,
\* a cookie or a form-session record; it attaches a uuid to the request
\* context if and only if the login_session cookie is non-empty and
\* VerifySession affirms it, whatever the action field of the request.
C23_PassiveResolver ==
    /\ [](Resolved(last) =>
             /\ last.next
             /\ last.status = 0 /\ last.msg = ""
             /\ last.formOut = "" /\ last.loginOut = ""
             /\ last.render = "" /\ last.renderTok = ""
             /\ (last.uuid # "") <=> (last.loginCookie # "" /\ last.answer.ok)
             /\ (last.uuid # "") => last.uuid = last.answer.uuid
             /\ last.calls = IF last.loginCookie # "" THEN <<"VerifySession">> ELSE <<>>)
    /\ [][Resolved(last') => (formSession' = formSession /\ nextTok' = nextTok)]_vars

\* a login request with a rejected cookie is forwarded without uuid
C23_Witness ==
    /\ Resolved(last) /\ last.action = "login"
    /\ last.loginCookie # "" /\ ~last.answer.ok
    /\ last.next /\ last.uuid = ""
    /\ DOMAIN formSession # {}

C23_WitnessAffirmed ==
    /\ Resolved(last) /\ last.action = "logout"
    /\ last.answer.ok /\ last.next /\ last.uuid \in UUIDs

\* the terminal outcomes of VerifyLogin
Forwarded(q) ==
    /\ q.next /\ q.uuid # ""
    /\ q.status = 0 /\ q.msg = "" /\ q.render = ""

Challenged(q) ==
    /\ ~q.next /\ q.uuid = ""
    /\ q.render # "" /\ q.renderTok \in DOMAIN issued /\ q.msg = ""

Denied(q) ==
    /\ ~q.next /\ q.uuid = ""
    /\ q.render = "" /\ q.status # 0

Outcomes(q) ==
    { k \in {"forwarded", "challenged", "denied"} :
        \/ k = "forwarded" /\ Forwarded(q)
        \/ k = "challenged" /\ Challenged(q)
        \/ k = "denied" /\ Denied(q) }

\* C24: provided every hook call returns, every invocation of VerifyLogin
\* ends, and ends in exactly one outcome: forwarded with a uuid, challenge
\* issued, or denied with a status; none ends without a response and none
\* with two.
C24_OneOutcome ==
    /\ []((Completed(last) /\ last.handler = "VerifyLogin") =>
             Cardinality(Outcomes(last)) = 1)
    /\ (req["r1"].pc # "idle") ~> (req["r1"].pc = "idle")

C24_Witness ==
    /\ Completed(last) /\ last.handler = "VerifyLogin"
    /\ last.action = "login" /\ InCalls(last, "CreateSession")
    /\ Denied(last) /\ last.status = 503

\* the hostname without its port: what stands before a final colon followed
\* by digits alone
PortColons(s) ==
    { i \in 1..(Len(s) - 1) : s[i] = ":" /\ \A j \in (i + 1)..Len(s) : IsDigit(s[j]) }

WithoutPort(s) ==
    IF PortColons(s) = {} THEN s
    ELSE SubSeq(s, 1, (CHOOSE i \in PortColons(s) : TRUE) - 1)

Listed(list, x) == \E i \in 1..Len(list) : list[i] = x

OriginChecked(q) == q.handler = "VerifyOrigin" /\ q.pc = "done"

\* C25: VerifyOrigin forwards a request if and only if its hostname without
\* the port is in the origin list, its IP is in the proxy list and the proxy
\* is trusted; any other request is not forwarded and is answered 403, or
\* handed to handleErr when there is one, and the text names the origin
\* whenever the origin is not listed, the proxy only when the origin is.
C25_OriginEnforced ==
    OriginChecked(last) =>
        LET h == WithoutPort(last.host)
            originOk == Listed(last.origin, h)
            proxyOk == Listed(last.proxy, last.ip) /\ last.trusted
            text == IF ~originOk THEN <<"Origin Not Allowed: ", h>>
                    ELSE <<"IP Proxy Not Allowed: ", last.ip>>
        IN /\ last.next <=> (originOk /\ proxyOk)
           /\ last.next => (last.status = 0 /\ ~last.handled /\ last.body = <<>>)
           /\ (~last.next /\ last.handleErr) =>
                 (last.handled /\ last.err = text /\ last.status = 0 /\ last.body = <<>>)
           /\ (~last.next /\ ~last.handleErr) =>
                 (~last.handled /\ last.status = 403 /\ last.body = text)

\* a Host header with a port is forwarded under its name
C25_Witness ==
    /\ OriginChecked(last) /\ last.next
    /\ last.host = <<"a", ":", "8">> /\ last.origin = <<<<"a">>>>

\* origin and proxy both fail: the answer is about the origin
C25_WitnessPrecedence ==
    /\ OriginChecked(last) /\ ~last.handleErr /\ last.status = 403
    /\ ~Listed(last.origin, WithoutPort(last.host))
    /\ ~Listed(last.proxy, last.ip)
    /\ last.body[1] = "Origin Not Allowed: "

\* the records in the map before and after a step are the same under every
\* token that stays
RecordsUntouched ==
    \A k \in DOMAIN formSession \cap DOMAIN formSession' : formSession'[k] = formSession[k]

\* the step stores a record: one only, under a token never used, for a known
\* fingerprint, with a secret no record ever had and 2 hours to live from now
RecordStored ==
    \E k \in DOMAIN formSession' \ DOMAIN formSession :
       /\ OneRecordInserted(k)
       /\ k \notin DOMAIN issued
       /\ formSession'[k].pcid \in Devices
       /\ formSession'[k].exp = now + Lifetime
       /\ \A j \in DOMAIN issued : issued[j].cookie # formSession'[k].cookie
       /\ formSession'[k].cookie \notin DOMAIN issued \cup {k, ""}

\* C26: a challenge inserts exactly one record, made of the fingerprint of
\* the requester, a new cookie secret and the time of creation plus 2 hours,
\* and leaves the other records as they are; no step of any handler changes
\* the fingerprint, the secret or the expiry of a record in the map.
C26_RecordsImmutable ==
    /\ [][RecordsUntouched]_vars
    /\ [][(DOMAIN formSession' \ DOMAIN formSession # {}) => RecordStored]_vars
    /\ [][(Completed(last') /\ last'.render = "login") =>
             /\ RecordStored
             /\ formSession'[last'.renderTok] =
                   FormSessionData(last'.pcid, last'.formOut, now + Lifetime)]_vars

\* a second record, stored later than the first, which a login has in hand
C26_Witness ==
    /\ Completed(last) /\ last.render = "login" /\ last.renderTok = FormTokens[2]
    /\ DOMAIN formSession = {FormTokens[1], FormTokens[2]}
    /\ formSession[FormTokens[1]].exp < formSession[FormTokens[2]].exp
    /\ req["r1"].pc = "del" /\ req["r1"].session = FormTokens[1]

\* the lookup of the request found the record and a hook has been called
\* since: Hooks.GetPCID, whose result the request holds
HookCalledAfterLookup(q) == q.pc # "idle" /\ q.found /\ q.pcid # ""

\* C27: in a login request the form-session record is out of the map before
\* any hook is called, so that a request which stops at any point after that
\* leaves no record which another request could redeem with the same token.
C27_RemovedBeforeHooks ==
    \A r \in Slots :
        HookCalledAfterLookup(req[r]) => req[r].session \notin DOMAIN formSession

\* the step is the formSession.Del of a login request that presents token k
DelOf(k) ==
    \E r \in Slots :
       /\ req[r].pc = "del" /\ req[r].session = k
       /\ req'[r].pc # "del"

\* C28: no interleaving of challenges and logins loses an update of the map:
\* a record leaves the map only in the Del of a login request that presents
\* its own token, a record that stays is not altered, a challenge adds its
\* record to all the records there are, and what the map holds under a token
\* is the record created under it.
C28_NoLostUpdate ==
    /\ [][\A k \in DOMAIN formSession : k \in DOMAIN formSession' \/ DelOf(k)]_vars
    /\ [][\A k \in DOMAIN formSession :
             k \in DOMAIN formSession' => formSession'[k] = formSession[k]]_vars
    /\ [][\A k \in DOMAIN issued' \ DOMAIN issued :
             /\ k \in DOMAIN formSession'
             /\ DOMAIN formSession \subseteq DOMAIN formSession']_vars
    /\ [](\A k \in DOMAIN formSession : k \in DOMAIN issued /\ formSession[k] = issued[k])

\* two logins in flight on two tokens: the first token is redeemed, the
\* record of the second is in the map
C28_Witness ==
    /\ req["r1"].pc = "verify" /\ req["r1"].session = FormTokens[1]
    /\ req["r2"].pc = "del" /\ req["r2"].session = FormTokens[2]
    /\ DOMAIN formSession = {FormTokens[2]}
    /\ formSession[FormTokens[2]] = issued[FormTokens[2]]

\* the request of slot r is inside a hook: past OnAttempt and in GetPCID
\* ("get", "del"), or in VerifyUserPass, OnLogin or CreateSession ("verify")
InHook(r) == req[r].pc \in {"get", "del", "verify"}

\* C29: no lock of the map is held while a hook runs: with the request of one
\* slot inside a hook for ever, the login request of the other slot goes on to
\* its end through its own Get and Del, and a request that gets a login form
\* can store its record.
C29_NoLockAcrossHooks ==
    /\ (req["r2"].pc # "idle") ~> (req["r2"].pc = "idle")
    /\ []((last = Idle /\ nextTok <= MaxTokens) => ENABLED Challenge)
    /\ [](\A r \in Slots : (last = Idle /\ InHook(r)) => ENABLED InFlightStep(r))

\* slot r1 is inside GetPCID, between its Get and its Del, while the login
\* of slot r2 has redeemed the token and returned
C29_Witness ==
    /\ req["r1"].pc = "del" /\ req["r1"].session = FormTokens[1]
    /\ req["r2"].pc = "idle"
    /\ Completed(last) /\ InCalls(last, "Del") /\ last.session = FormTokens[1]
    /\ last.got = issued[FormTokens[1]]
    /\ FormTokens[1] \notin DOMAIN formSession

\* slot r1 is inside VerifyUserPass, OnLogin or CreateSession
C29_WitnessVerify ==
    /\ req["r1"].pc = "verify"
    /\ req["r2"].pc = "idle"
    /\ Completed(last) /\ InCalls(last, "Get") /\ last.status = 408

\* a login request that presents token k from the device of its record is
\* let through by the condition of login.go:187
Redeemable(k) ==
    LET g == SyncMapGet(formSession, k)
    IN g.ok /\ SessionUsable(g.val, g.ok, g.val.pcid, now)

\* C30: a login request which OnAttempt denies leaves the map as it was and
\* sends no form_session cookie, neither a new one nor a cleared one: a token
\* that a login could redeem before the denial is one a login can redeem
\* after it.
C30_DenialKeepsFormSession ==
    /\ [](AttemptDenied(last) =>
             /\ last.formOut = "" /\ last.loginOut = ""
             /\ ~last.found /\ last.pcid = "")
    /\ [][AttemptDenied(last') =>
             /\ formSession' = formSession /\ nextTok' = nextTok
             /\ \A k \in DOMAIN issued : Redeemable(k) => Redeemable(k)']_vars

\* the denied request presented the token of a record still to be redeemed
C30_Witness ==
    /\ AttemptDenied(last) /\ last.status = 401
    /\ last.session = FormTokens[1] /\ Redeemable(last.session)
    /\ hist[last.session] = {}

\* the request redeemed its form session: the record was found for its
\* fingerprint before expiry, deleted, and the form_session cookie matched
Redeemed(q) ==
    /\ q.found /\ q.unexpired /\ q.got.pcid = q.pcid
    /\ InCalls(q, "Del") /\ q.formCookie = q.got.cookie

\* C31: OnFailedAttempt is called at most once in a request, and only in a
\* login request that redeemed its form session and whose credentials
\* VerifyUserPass has just rejected; a request answered 408, one denied by an
\* OnLogin callback and one whose CreateSession failed do not call it.
C31_FailedAttemptOnlyOnRejection ==
    \A q \in Requests :
        /\ Count(q, "OnFailedAttempt") <= 1
        /\ InCalls(q, "OnFailedAttempt") =>
              /\ q.action = "login" /\ Redeemed(q)
              /\ ~VerifyUserPass(q.cred).ok
              /\ q.calls[Len(q.calls)] = "OnFailedAttempt"
              /\ q.calls[Len(q.calls) - 1] = "VerifyUserPass"
        /\ (q.status = 408 \/ InCalls(q, "OnLogin") \/ InCalls(q, "CreateSession")
              \/ q.rejectedBy # 0 \/ q.action # "login") =>
              ~InCalls(q, "OnFailedAttempt")

\* CreateSession failed after every callback passed: no OnFailedAttempt
C31_Witness ==
    /\ Completed(last) /\ Redeemed(last)
    /\ InCalls(last, "CreateSession") /\ last.status = 503
    /\ Count(last, "OnLogin") = NumCallbacks
    /\ ~InCalls(last, "OnFailedAttempt")

C31_WitnessCalled ==
    /\ Completed(last) /\ Redeemed(last)
    /\ Count(last, "OnFailedAttempt") = 1 /\ last.status = 401

C31_WitnessCallback ==
    /\ Completed(last) /\ Redeemed(last) /\ last.rejectedBy = 1
    /\ ~InCalls(last, "OnFailedAttempt")

LoggedOut(q) == Completed(q) /\ q.handler = "VerifyLogin" /\ q.action = "logout"

\* position of the first call of that name in the calls of q (0: none)
FirstCall(q, name) ==
    IF InCalls(q, name) THEN CHOOSE i \in 1..Len(q.calls) :
                                /\ q.calls[i] = name
                                /\ \A j \in 1..(i - 1) : q.calls[j] # name
    ELSE 0

C32_WitnessChallenge ==
    /\ LoggedOut(last) /\ last.loginCookie # "" /\ ~last.answer.ok
    /\ last.render = "login"

\* the step is the Del of a login request that found the record of token k
\* under its own fingerprint before expiry
RedeemedInStep(k) ==
    \E r \in Slots :
       /\ req[r].pc = "del" /\ req'[r].pc # "del"
       /\ req[r].action = "login" /\ req[r].session = k
       /\ req[r].found /\ req[r].unexpired /\ req[r].got.pcid = req[r].pcid

\* a completed request of a kind that removes nothing
\* a login request that found its record and failed the fingerprint or the
\* expiry check
FailedCheck(q) ==
    /\ Completed(q) /\ q.handler = "VerifyLogin" /\ q.action = "login"
    /\ q.found /\ (~q.unexpired \/ q.got.pcid # q.pcid)

NonRedeeming(q) ==
    /\ Completed(q)
    /\ \/ q.handler = "GetLoginSession"
       \/ q.action \in {"", "logout"}
       \/ FailedCheck(q)

\* C33: a record leaves the map only in the step of a login request that
\* presents its token with the fingerprint of the record before its expiry;
\* requests without action, logout requests, GetLoginSession and logins that
\* fail the fingerprint or the expiry check remove nothing, the record they
\* looked up stays, and the map never gets smaller in any other step.
C33_OnlyRedemptionRemoves ==
    /\ [][\A k \in DOMAIN formSession : k \in DOMAIN formSession' \/ RedeemedInStep(k)]_vars
    /\ [][NonRedeeming(last') => DOMAIN formSession \subseteq DOMAIN formSession']_vars
    /\ [][Cardinality(DOMAIN formSession') < Cardinality(DOMAIN formSession) =>
             \E k \in DOMAIN formSession : RedeemedInStep(k)]_vars
    /\ [](FailedCheck(last) =>
             (last.session \in DOMAIN formSession /\ ~InCalls(last, "Del")))

\* an expired record is still in the map after the login that presented it
C33_Witness ==
    /\ FailedCheck(last)
    /\ ~last.unexpired /\ last.got.pcid = last.pcid
    /\ last.session \in DOMAIN formSession
    /\ now >= formSession[last.session].exp

C33_WitnessPassive ==
    /\ NonRedeeming(last) /\ last.handler = "GetLoginSession"
    /\ DOMAIN formSession # {}

\* a login that passed redemption and VerifyUserPass and was then denied by
\* an OnLogin callback or by the error of CreateSession
DeniedAfterVerify(q) ==
    /\ Completed(q) /\ q.action = "login" /\ Redeemed(q)
    /\ InCalls(q, "VerifyUserPass") /\ VerifyUserPass(q.cred).ok
    /\ q.rejectedBy # 0 \/ CreateSessionFailed(q)

\* C34: a login that passes redemption and VerifyUserPass and is then denied
\* by an OnLogin callback or by the error of CreateSession gets no
\* login_session cookie, no uuid, is not forwarded and gets no new login form;
\* its form session stays consumed: the token is out of the map, no token
\* once out of the map comes back, and a login that looks up a token which is
\* not in the map is answered 408.
C34_DeniedAfterVerify ==
    /\ [](DeniedAfterVerify(last) =>
             /\ last.loginOut = "" /\ last.uuid = "" /\ ~last.next
             /\ last.status # 0
             /\ last.render = "" /\ last.renderTok = "" /\ ~InCalls(last, "Set")
             /\ last.session \notin DOMAIN formSession
             /\ "redeemed" \in hist[last.session])
    /\ [][\A k \in DOMAIN issued : k \notin DOMAIN formSession => k \notin DOMAIN formSession']_vars
    /\ [][DeniedAfterVerify(last') => (nextTok' = nextTok /\ formSession' = formSession)]_vars
    /\ []((Completed(last) /\ last.action = "login" /\ InCalls(last, "Get") /\ ~last.found)
             => FailedRedemption(last))

\* denied by the second callback
C34_Witness ==
    /\ DeniedAfterVerify(last) /\ last.rejectedBy = NumCallbacks
    /\ last.status = 401 /\ ~InCalls(last, "CreateSession")

C34_WitnessCreate ==
    /\ DeniedAfterVerify(last) /\ CreateSessionFailed(last) /\ last.status = 503

\* the token of a consumed form session is presented again: 408
C34_WitnessAfterwards ==
    /\ FailedRedemption(last) /\ ~last.found
    /\ last.session \in DOMAIN issued /\ "redeemed" \in hist[last.session]

SSLHandled(q) == q.handler = "RedirectSSL" /\ q.pc = "done"

CertHandled(q) == q.handler = "GenRsaKeyIfNeeded" /\ q.pc = "done"

\* a file of the pair is missing
PairMissing(in) == ~in.crtStat.exists \/ ~in.keyStat.exists

\* the two files were last modified in different minutes, or the year is
\* later than the year the certificate was last modified in
PairStale(in) ==
    \/ in.crtStat.time.year # in.keyStat.time.year
    \/ in.crtStat.time.ms \div MsPerMinute # in.keyStat.time.ms \div MsPerMinute
    \/ in.nowYear > in.crtStat.time.year

\* C36: GenRsaKeyIfNeeded regenerates the pair exactly when a file of the
\* pair is missing, the two modification times are in different minutes, or
\* the year is later than the year of the certificate; when the regeneration
\* of a pair that exists fails, the certificate and the key have their
\* previous contents again and the error is returned.
C36_RegeneratesWhenNeeded ==
    CertHandled(last) =>
        LET in == last.in
            out == last.out
        IN /\ out.called <=> (PairMissing(in) \/ PairStale(in))
           /\ (~PairMissing(in) /\ out.called /\ in.gen # "ok") =>
                 /\ out.err
                 /\ out.files.crt = in.files.crt /\ out.files.key = in.files.key

\* C36, amended: GenRsaKey is called exactly when a file of the pair is
\* missing, or the pair is stale and both copies to .old succeeded; a stale
\* pair whose copy to .old fails is left as it is and the error returned; a
\* pair neither missing nor stale is left alone; when the regeneration of a
\* pair that exists fails the error is returned, and each of the two files
\* has its previous content again if its copy back from .old succeeds, while
\* the .old copy is kept if it does not.
C36_RegeneratesWhenSaved ==
    CertHandled(last) =>
        LET in == last.in
            out == last.out
            saved == in.crtSaved /\ in.keySaved
        IN /\ out.called <=> (PairMissing(in) \/ (PairStale(in) /\ saved))
           /\ (~PairMissing(in) /\ PairStale(in) /\ ~saved) =>
                 /\ out.err
                 /\ out.files.crt = in.files.crt /\ out.files.key = in.files.key
           /\ (~PairMissing(in) /\ ~PairStale(in)) => (~out.err /\ out.files = in.files)
           /\ (out.called /\ in.gen = "ok") =>
                 (~out.err /\ out.files.crt = "new crt" /\ out.files.key = "new key")
           /\ (out.called /\ in.gen # "ok") => out.err
           /\ (~PairMissing(in) /\ out.called /\ in.gen # "ok") =>
                 /\ in.crtBack => (out.files.crt = in.files.crt /\ out.files.crtOld = "none")
                 /\ in.keyBack => (out.files.key = in.files.key /\ out.files.keyOld = "none")
                 /\ ~in.crtBack => out.files.crtOld = in.files.crt
                 /\ ~in.keyBack => out.files.keyOld = in.files.key

\* certificate and key written one millisecond apart in two minutes; the
\* write of the new key fails and both files come back from their copies
C36_Witness ==
    /\ CertHandled(last)
    /\ last.in.crtStat.exists /\ last.in.keyStat.exists
    /\ last.in.crtStat.time = [year |-> 2026, ms |-> 59999]
    /\ last.in.keyStat.time = [year |-> 2026, ms |-> 60000]
    /\ last.in.nowYear = 2026
    /\ last.out.called /\ last.in.gen = "key" /\ last.out.err
    /\ last.out.files = Files("crt", "key", "none", "none")

\* the copy of the certificate to .old fails: nothing is regenerated
C36_WitnessNotSaved ==
    /\ CertHandled(last) /\ ~PairMissing(last.in) /\ PairStale(last.in)
    /\ ~last.in.crtSaved /\ ~last.out.called /\ last.out.err

====
